---- MODULE Spec2Model ----
\* A model of src/index.js: a puppeteer script that walks a photo gallery,
\* clicks the image link of each photo, waits for the file to land in the
\* download directory and then clicks the gallery's "next" control.
\*
\* The program is one sequential async function (main) whose awaits are the
\* points where the environment (the browser writing files, the gallery
\* rendering, the clock) may act.  Every await of the source is one value of pc.
EXTENDS Integers, Sequences, FiniteSets, TLC

VARIABLES
  pc,             \* position of the script (which await it is suspended at)
  argv,           \* process.argv
  dirExists,      \* whether the download directory exists
  dir,            \* set of file names in the download directory
  dir0,           \* history: the directory's content when the process started
  browser,        \* "none" | "open" | "closed"
  galleryN,       \* number of photos of the gallery at BASE_URL
  displayed,      \* photo the gallery page displays (0: no page loaded yet)
  pending,        \* gallery: a "next" click was received, next photo not yet displayed
  linkVisible,    \* gallery: an element matching SELECTORS.IMAGE_LINK is visible
  nextShown,      \* gallery: an element matching SELECTORS.NEXT_BUTTON is visible
  clock,          \* ms elapsed since the last reference point (click / wait start)
  photoCount,     \* main: let photoCount
  startTime,      \* waitForDownloadCompletion: const startTime
  filesBefore,    \* waitForDownloadCompletion: let filesBefore
  filesAfter,     \* waitForDownloadCompletion: const filesAfter (last poll)
  completedFile,  \* waitForDownloadCompletion: const completedFile (last poll)
  sleepUntil,     \* deadline of the pending setTimeout
  err,            \* the exception main is unwinding with ("none" if none)
  exitCode,       \* exit code of the process (-1 while it runs)
  summary,        \* count printed by MESSAGES.COMPLETION (-1: not printed)
  downloads,      \* history: one record per image-link click (the browser's download)
  returned,       \* history: file names returned by waitForDownloadCompletion
  nextClicks,     \* history: number of clicks on the "next" control
  advanced,       \* history: number of times handleNextButton returned true
  qualPolls,      \* history: polls of the current call that saw a new completed file
  envFault,       \* history: a browser step failed or timed out (other than a download)
  falseEnd        \* history: handleNextButton returned false before the last photo

vars == <<pc, argv, dirExists, dir, dir0, browser, galleryN, displayed, pending,
          linkVisible, nextShown, clock, photoCount, startTime, filesBefore,
          filesAfter, completedFile, sleepUntil, err, exitCode, summary,
          downloads, returned, nextClicks, advanced, qualPolls, envFault, falseEnd>>

\* The parts of the state that belong to one component, for UNCHANGED.
procVars    == <<argv, exitCode, summary>>
fsVars      == <<dirExists, dir, dir0>>
galleryVars == <<galleryN, displayed, pending, linkVisible, nextShown>>
watchVars   == <<startTime, filesBefore, filesAfter, completedFile, qualPolls>>
histVars    == <<downloads, returned, nextClicks, advanced, envFault, falseEnd>>

-----------------------------------------------------------------------------
\* Bounds of the model.

\* Largest gallery explored.
MaxPhotos == 3

\* Largest gallery explored under fair scheduling.
MaxFairPhotos == 2

-----------------------------------------------------------------------------
\* CONFIG.TIMEOUTS (milliseconds).

DOWNLOAD == 30000
ELEMENT_VISIBLE == 15000
ANIMATION == 2000
POLL_INTERVAL == 500

-----------------------------------------------------------------------------
\* Strings.  A string is a sequence of characters; the model's characters are
\* tokens (a token stands for a run of characters that no operation splits).

\* String.prototype.endsWith
EndsWith(s, suffix) ==
  /\ Len(s) >= Len(suffix)
  /\ SubSeq(s, Len(s) - Len(suffix) + 1, Len(s)) = suffix

\* The suffix Chrome gives a download it is still writing.
CrDownload == <<".crdownload">>

\* Name Chrome gives the c-th download of photo p (it never overwrites: a
\* repeated name gets a " (c)" counter).
Digit(n) == <<"0", "1", "2", "3", "4", "5", "6", "7", "8", "9">>[n + 1]
FileName(p, c) == <<"photo", Digit(p), "(", Digit(c), ")", ".jpg">>

\* Name of the same download while it is being written.
PartialName(name) == name \o CrDownload

\* A file left in the directory by something else than this run.
Leftover == <<"old", ".jpg">>

\* The URL strings tried as argv[2]: scheme "h" stands for a special scheme
\* (http, https), "a" for a host or path segment.
GoodUrl == <<"h", ":", "/", "/", "a">>
Urls == { GoodUrl, <<>>, <<"a">>, <<"/", "a">>, <<":", "/", "/", "a">>,
          <<"h", ":", "/", "/">> }

\* new URL(url) without a base: the string must start with a scheme and ":",
\* and a special scheme needs a non-empty host after "//".
isValidUrl(url) ==
  /\ Len(url) >= 5
  /\ url[1] = "h" /\ url[2] = ":"
  /\ url[3] = "/" /\ url[4] = "/"
  /\ url[5] \notin {"/", ":"}

\* process.argv for `node index.js [url]`.
Argvs == { <<"node", "index.js">> } \cup { <<"node", "index.js", u>> : u \in Urls }

\* CONFIG.BASE_URL
BASE_URL == argv[3]

-----------------------------------------------------------------------------
\* waitForDownloadCompletion's pure steps.

\* Mutant of NewFiles: the listing is not diffed against the snapshot.
NewFiles_noDiff(after, before) == after

\* filesAfter.filter(f => !filesBefore.includes(f))
NewFiles(after, before) == { f \in after : f \notin before }

\* The candidates of newFiles.find(f => !f.endsWith('.crdownload')): find
\* returns the first one in readdir's order, which is unspecified.
Completed(newFiles) == { f \in newFiles : ~EndsWith(f, CrDownload) }

\* Value standing for find's undefined.
Undefined == <<>>

\* History: what a poll made now should report, read off the directory: the
\* files that were not there at the 'before' snapshot and are fully written.
QualifyingNow ==
  { f \in dir : f \notin filesBefore /\ ~EndsWith(f, CrDownload) }

-----------------------------------------------------------------------------
Init ==
  /\ pc = "argc_check"
  /\ argv \in Argvs
  /\ dirExists \in BOOLEAN
  /\ dir \in IF dirExists THEN { {}, {Leftover}, {Leftover, PartialName(Leftover)} }
                          ELSE { {} }
  /\ dir0 = dir
  /\ browser = "none"
  /\ galleryN \in 1..MaxPhotos
  /\ displayed = 0
  /\ pending = FALSE
  /\ linkVisible = FALSE
  /\ nextShown = FALSE
  /\ clock = 0
  /\ photoCount = 0
  /\ startTime = 0
  /\ filesBefore = {}
  /\ filesAfter = {}
  /\ completedFile = Undefined
  /\ sleepUntil = 0
  /\ err = "none"
  /\ exitCode = -1
  /\ summary = -1
  /\ downloads = <<>>
  /\ returned = <<>>
  /\ nextClicks = 0
  /\ advanced = 0
  /\ qualPolls = 0
  /\ envFault = FALSE
  /\ falseEnd = FALSE

-----------------------------------------------------------------------------
\* Top level of the script (lines 5-29) and main's preconditions.

\* process.exit(code)
Exit(code) ==
  /\ exitCode' = code
  /\ pc' = "exited"

\* if (process.argv.length < 3) process.exit(1)
top_argcCheck ==
  /\ pc = "argc_check"
  /\ IF Len(argv) < 3
       THEN Exit(1)
       ELSE pc' = "url_check" /\ exitCode' = exitCode
  /\ UNCHANGED <<argv, summary, fsVars, browser, galleryVars, clock, photoCount,
                 watchVars, sleepUntil, err, histVars>>

\* if (!isValidUrl(process.argv[2])) process.exit(1)
top_urlCheck ==
  /\ pc = "url_check"
  /\ IF ~isValidUrl(argv[3])
       THEN Exit(1)
       ELSE pc' = "mkdir" /\ exitCode' = exitCode
  /\ UNCHANGED <<argv, summary, fsVars, browser, galleryVars, clock, photoCount,
                 watchVars, sleepUntil, err, histVars>>

\* await fs.mkdir(downloadPath, { recursive: true })
main_mkdir ==
  /\ pc = "mkdir"
  /\ dirExists' = TRUE
  /\ pc' = "check_empty"
  /\ UNCHANGED <<procVars, dir, dir0, browser, galleryVars, clock, photoCount,
                 watchVars, sleepUntil, err, histVars>>

\* checkDirectoryEmpty: throws when readdir lists a file
checkDirectoryEmpty(directory) == Cardinality(directory) > 0

\* Mutant of main_checkDirectoryEmpty: the error is logged, the run goes on.
main_checkDirectoryEmpty_noExit ==
  /\ pc = "check_empty"
  /\ pc' = "launch"
  /\ UNCHANGED <<procVars, fsVars, browser, galleryVars, clock, photoCount,
                 watchVars, sleepUntil, err, histVars>>

\* try { await checkDirectoryEmpty(downloadPath) } catch { process.exit(1) }
main_checkDirectoryEmpty ==
  /\ pc = "check_empty"
  /\ IF checkDirectoryEmpty(dir)
       THEN Exit(1)
       ELSE pc' = "launch" /\ exitCode' = exitCode
  /\ UNCHANGED <<argv, summary, fsVars, browser, galleryVars, clock, photoCount,
                 watchVars, sleepUntil, err, histVars>>

\* setupBrowser: const browser = await puppeteer.launch(...)
setupBrowser_launch ==
  /\ pc = "launch"
  /\ \/ /\ browser' = "open"
        /\ pc' = "new_page"
        /\ UNCHANGED <<err, envFault>>
     \/ /\ browser' = browser          \* launch rejects: no browser process
        /\ err' = "launch"
        /\ envFault' = TRUE
        /\ pc' = "rejected"
  /\ UNCHANGED <<procVars, fsVars, galleryVars, clock, photoCount, watchVars,
                 sleepUntil, downloads, returned, nextClicks, advanced, falseEnd>>

\* setupBrowser: const page = await browser.newPage(); return { browser, page }
setupBrowser_newPage ==
  /\ pc = "new_page"
  /\ \/ /\ pc' = "configure"
        /\ UNCHANGED <<err, envFault>>
     \/ /\ err' = "newPage"
        /\ envFault' = TRUE
        /\ pc' = "rejected"
  /\ UNCHANGED <<procVars, fsVars, browser, galleryVars, clock, photoCount,
                 watchVars, sleepUntil, downloads, returned, nextClicks,
                 advanced, falseEnd>>

\* await configureDownloads(page, downloadPath): before main's try block
configureDownloads ==
  /\ pc = "configure"
  /\ \/ /\ pc' = "goto"
        /\ UNCHANGED <<err, envFault>>
     \/ /\ err' = "configure"         \* createCDPSession or client.send rejects
        /\ envFault' = TRUE
        /\ pc' = "rejected"
  /\ UNCHANGED <<procVars, fsVars, browser, galleryVars, clock, photoCount,
                 watchVars, sleepUntil, downloads, returned, nextClicks,
                 advanced, falseEnd>>

\* try { await page.goto(CONFIG.BASE_URL); let photoCount = 0;
main_goto ==
  /\ pc = "goto"
  /\ \/ /\ displayed' = 1            \* the gallery page loads on its first photo;
        /\ linkVisible' \in BOOLEAN  \* its image link may render after the load event
        /\ photoCount' = 0
        /\ pc' = "click"
        /\ UNCHANGED <<err, envFault>>
     \/ /\ err' = "goto"
        /\ envFault' = TRUE
        /\ pc' = "finally"
        /\ UNCHANGED <<displayed, linkVisible, photoCount>>
  /\ UNCHANGED <<procVars, fsVars, browser, galleryN, pending, nextShown, clock,
                 watchVars, sleepUntil, downloads, returned, nextClicks,
                 advanced, falseEnd>>

-----------------------------------------------------------------------------
\* main's loop (lines 147-157).

\* Number of earlier downloads of photo p in this run.
Copies(p) == Cardinality({ i \in DOMAIN downloads : downloads[i].photo = p })

\* Mutant of main_click: waitForDownloadCompletion is not awaited, the script
\* goes on to handleNextButton at once.
main_click_noAwait ==
  /\ pc = "click"
  /\ IF linkVisible
       THEN /\ downloads' = Append(downloads,
                 [photo |-> displayed,
                  name  |-> FileName(displayed, Copies(displayed)),
                  st    |-> "requested",
                  late  |-> FALSE])
            /\ clock' = 0
            /\ pc' = "downloaded"
            /\ UNCHANGED <<err, envFault>>
       ELSE /\ err' = "click"
            /\ envFault' = TRUE
            /\ pc' = "finally"
            /\ UNCHANGED <<downloads, clock>>
  /\ UNCHANGED <<procVars, fsVars, browser, galleryVars, photoCount, watchVars,
                 sleepUntil, returned, nextClicks, advanced, falseEnd>>

\* console.log(DOWNLOAD_START); await page.click(CONFIG.SELECTORS.IMAGE_LINK)
\* page.click rejects when no element matches the selector; otherwise the
\* browser starts downloading the photo the gallery displays at that moment.
main_click ==
  /\ pc = "click"
  /\ IF linkVisible
       THEN /\ downloads' = Append(downloads,
                 [photo |-> displayed,
                  name  |-> FileName(displayed, Copies(displayed)),
                  st    |-> "requested",
                  late  |-> FALSE])
            /\ clock' = 0
            /\ pc' = "wdc_start"
            /\ UNCHANGED <<err, envFault>>
       ELSE /\ err' = "click"
            /\ envFault' = TRUE
            /\ pc' = "finally"
            /\ UNCHANGED <<downloads, clock>>
  /\ UNCHANGED <<procVars, fsVars, browser, galleryVars, photoCount, watchVars,
                 sleepUntil, returned, nextClicks, advanced, falseEnd>>

\* waitForDownloadCompletion: const startTime = Date.now()
waitForDownloadCompletion_start ==
  /\ pc = "wdc_start"
  /\ startTime' = clock
  /\ qualPolls' = 0
  /\ pc' = "wdc_before"
  /\ UNCHANGED <<procVars, fsVars, browser, galleryVars, clock, photoCount,
                 filesBefore, filesAfter, completedFile, sleepUntil, err, histVars>>

\* waitForDownloadCompletion: let filesBefore = await fs.readdir(directory)
waitForDownloadCompletion_before ==
  /\ pc = "wdc_before"
  /\ filesBefore' = dir
  /\ pc' = "wdc_test"
  /\ UNCHANGED <<procVars, fsVars, browser, galleryVars, clock, photoCount,
                 startTime, filesAfter, completedFile, qualPolls, sleepUntil,
                 err, histVars>>

\* Mutant of waitForDownloadCompletion_test: at the deadline the function
\* returns instead of throwing, and the photo is skipped.
waitForDownloadCompletion_test_skip ==
  /\ pc = "wdc_test"
  /\ IF clock - startTime < DOWNLOAD
       THEN pc' = "wdc_poll"
       ELSE pc' = "downloaded"
  /\ UNCHANGED <<procVars, fsVars, browser, galleryVars, clock, photoCount,
                 watchVars, sleepUntil, err, histVars>>

\* Mutant of waitForDownloadCompletion_test: the loop gives up one poll early.
waitForDownloadCompletion_test_early ==
  /\ pc = "wdc_test"
  /\ IF clock - startTime < DOWNLOAD - POLL_INTERVAL
       THEN pc' = "wdc_poll" /\ err' = err
       ELSE pc' = "finally" /\ err' = "timeout"
  /\ UNCHANGED <<procVars, fsVars, browser, galleryVars, clock, photoCount,
                 watchVars, sleepUntil, histVars>>

\* waitForDownloadCompletion: while (Date.now() - startTime < DOWNLOAD) ...
\* throw new Error('Download timed out')
waitForDownloadCompletion_test ==
  /\ pc = "wdc_test"
  /\ IF clock - startTime < DOWNLOAD
       THEN pc' = "wdc_poll" /\ err' = err
       ELSE pc' = "finally" /\ err' = "timeout"
  /\ UNCHANGED <<procVars, fsVars, browser, galleryVars, clock, photoCount,
                 watchVars, sleepUntil, histVars>>

\* waitForDownloadCompletion: the body of the loop up to its await:
\* readdir, filter, find, return or setTimeout
waitForDownloadCompletion_poll ==
  /\ pc = "wdc_poll"
  /\ filesAfter' = dir
  /\ qualPolls' = qualPolls + (IF QualifyingNow # {} THEN 1 ELSE 0)
  /\ LET newFiles == NewFiles(dir, filesBefore)
         found    == Completed(newFiles)
     IN  IF found # {}
           THEN /\ \E f \in found :
                     /\ completedFile' = f
                     /\ returned' = Append(returned, f)
                /\ pc' = "downloaded"
                /\ UNCHANGED sleepUntil
           ELSE /\ completedFile' = Undefined
                /\ sleepUntil' = clock + POLL_INTERVAL
                /\ pc' = "wdc_sleep"
                /\ UNCHANGED returned
  /\ UNCHANGED <<procVars, fsVars, browser, galleryVars, clock, photoCount,
                 startTime, filesBefore, err, downloads, nextClicks, advanced,
                 envFault, falseEnd>>

\* waitForDownloadCompletion: the setTimeout(resolve, POLL_INTERVAL) fires
waitForDownloadCompletion_sleep ==
  /\ pc = "wdc_sleep"
  /\ clock >= sleepUntil
  /\ pc' = "wdc_test"
  /\ UNCHANGED <<procVars, fsVars, browser, galleryVars, clock, photoCount,
                 watchVars, sleepUntil, err, histVars>>

\* console.log(DOWNLOAD_SUCCESS(filename)); handleNextButton(page, photoCount + 1)
main_downloaded ==
  /\ pc = "downloaded"
  /\ clock' = 0
  /\ pc' = "hnb_wait_next"
  /\ UNCHANGED <<procVars, fsVars, browser, galleryVars, photoCount, watchVars,
                 sleepUntil, err, histVars>>

\* Mutant of main_hasNext: photoCount++ is missing.
main_hasNext_noCount(hasNext) ==
  IF hasNext
    THEN /\ advanced' = advanced + 1
         /\ pc' = "click"
         /\ UNCHANGED photoCount
    ELSE /\ pc' = "completion"
         /\ UNCHANGED <<photoCount, advanced>>

\* const hasNext = await handleNextButton(...); if (!hasNext) break; photoCount++
main_hasNext(hasNext) ==
  IF hasNext
    THEN /\ photoCount' = photoCount + 1
         /\ advanced' = advanced + 1
         /\ pc' = "click"
    ELSE /\ pc' = "completion"
         /\ UNCHANGED <<photoCount, advanced>>

\* Some photo of the gallery has not been displayed yet.
MorePhotos == displayed < galleryN \/ pending

\* Mutant of handleNextButton_waitNext: waitForSelector is called without a
\* timeout and resolves only when the control shows.
handleNextButton_waitNext_noTimeout ==
  /\ pc = "hnb_wait_next"
  /\ nextShown
  /\ pc' = "hnb_click_next"
  /\ UNCHANGED <<procVars, fsVars, browser, galleryVars, clock, photoCount,
                 watchVars, sleepUntil, err, histVars>>

\* handleNextButton: await page.waitForSelector(NEXT_BUTTON, {visible, timeout});
\* a rejection (TimeoutError) is caught: return false
handleNextButton_waitNext ==
  /\ pc = "hnb_wait_next"
  /\ \/ /\ nextShown
        /\ pc' = "hnb_click_next"
        /\ UNCHANGED <<photoCount, advanced, envFault, falseEnd>>
     \/ /\ ~nextShown
        /\ clock >= ELEMENT_VISIBLE
        /\ main_hasNext(FALSE)
        /\ falseEnd' = (falseEnd \/ MorePhotos)
        /\ envFault' = (envFault \/ MorePhotos)
  /\ UNCHANGED <<procVars, fsVars, browser, galleryVars, clock, watchVars,
                 sleepUntil, err, downloads, returned, nextClicks>>

\* handleNextButton: await nextContainer.click(); a rejection is caught: return false
handleNextButton_click ==
  /\ pc = "hnb_click_next"
  /\ \/ /\ nextClicks' = nextClicks + 1
        /\ pending' = TRUE            \* the gallery starts moving to the next photo
        /\ nextShown' = FALSE
        /\ linkVisible' \in BOOLEAN   \* it may keep showing the old photo's link meanwhile
        /\ clock' = 0
        /\ pc' = "hnb_wait_link"
        /\ UNCHANGED <<photoCount, advanced, envFault, falseEnd>>
     \/ /\ main_hasNext(FALSE)
        /\ falseEnd' = TRUE
        /\ envFault' = TRUE
        /\ UNCHANGED <<nextClicks, pending, nextShown, linkVisible, clock>>
  /\ UNCHANGED <<procVars, fsVars, browser, galleryN, displayed, watchVars,
                 sleepUntil, err, downloads, returned>>

\* Mutant of handleNextButton_waitLink: the TimeoutError of the second
\* waitForSelector is not caught and rejects main.
handleNextButton_waitLink_throw ==
  /\ pc = "hnb_wait_link"
  /\ \/ /\ linkVisible
        /\ sleepUntil' = clock + ANIMATION
        /\ pc' = "hnb_settle"
        /\ UNCHANGED <<err, envFault, falseEnd>>
     \/ /\ ~linkVisible
        /\ clock >= ELEMENT_VISIBLE
        /\ err' = "waitForSelector"
        /\ pc' = "finally"
        /\ falseEnd' = TRUE
        /\ envFault' = TRUE
        /\ UNCHANGED sleepUntil
  /\ UNCHANGED <<procVars, fsVars, browser, galleryVars, clock, photoCount,
                 watchVars, downloads, returned, nextClicks, advanced>>

\* handleNextButton: await page.waitForSelector(IMAGE_LINK, {visible, timeout});
\* then the setTimeout(resolve, ANIMATION) is started
handleNextButton_waitLink ==
  /\ pc = "hnb_wait_link"
  /\ \/ /\ linkVisible
        /\ sleepUntil' = clock + ANIMATION
        /\ pc' = "hnb_settle"
        /\ UNCHANGED <<photoCount, advanced, envFault, falseEnd>>
     \/ /\ ~linkVisible
        /\ clock >= ELEMENT_VISIBLE
        /\ main_hasNext(FALSE)
        /\ falseEnd' = TRUE
        /\ envFault' = TRUE
        /\ UNCHANGED sleepUntil
  /\ UNCHANGED <<procVars, fsVars, browser, galleryVars, clock, watchVars, err,
                 downloads, returned, nextClicks>>

\* Mutant of handleNextButton_settle: true is returned without awaiting the
\* ANIMATION timer.
handleNextButton_settle_noDelay ==
  /\ pc = "hnb_settle"
  /\ main_hasNext(TRUE)
  /\ UNCHANGED <<procVars, fsVars, browser, galleryVars, clock, watchVars,
                 sleepUntil, err, downloads, returned, nextClicks, envFault,
                 falseEnd>>

\* handleNextButton: the ANIMATION timer fires; return true
handleNextButton_settle ==
  /\ pc = "hnb_settle"
  /\ clock >= sleepUntil
  /\ main_hasNext(TRUE)
  /\ UNCHANGED <<procVars, fsVars, browser, galleryVars, clock, watchVars,
                 sleepUntil, err, downloads, returned, nextClicks, envFault,
                 falseEnd>>

\* Mutant of main_completion: the summary reports photoCount, not photoCount + 1.
main_completion_offByOne ==
  /\ pc = "completion"
  /\ summary' = photoCount
  /\ pc' = "finally"
  /\ UNCHANGED <<argv, exitCode, fsVars, browser, galleryVars, clock, photoCount,
                 watchVars, sleepUntil, err, histVars>>

\* console.log(CONFIG.MESSAGES.COMPLETION(photoCount + 1))
main_completion ==
  /\ pc = "completion"
  /\ summary' = photoCount + 1
  /\ pc' = "finally"
  /\ UNCHANGED <<argv, exitCode, fsVars, browser, galleryVars, clock, photoCount,
                 watchVars, sleepUntil, err, histVars>>

\* finally { await browser.close() }
main_finally ==
  /\ pc = "finally"
  /\ browser' = "closed"
  /\ pc' = IF err = "none" THEN "resolved" ELSE "rejected"
  /\ UNCHANGED <<procVars, fsVars, galleryVars, clock, photoCount, watchVars,
                 sleepUntil, err, histVars>>

\* main() resolved: nothing is left to run and node exits with code 0
main_resolved ==
  /\ pc = "resolved"
  /\ Exit(0)
  /\ UNCHANGED <<argv, summary, fsVars, browser, galleryVars, clock, photoCount,
                 watchVars, sleepUntil, err, histVars>>

\* Mutant of main_catch: the error is logged and the process ends normally.
main_catch_exitZero ==
  /\ pc = "rejected"
  /\ Exit(0)
  /\ UNCHANGED <<argv, summary, fsVars, browser, galleryVars, clock, photoCount,
                 watchVars, sleepUntil, err, histVars>>

\* main().catch(error => { console.error(...); process.exit(1) })
main_catch ==
  /\ pc = "rejected"
  /\ Exit(1)
  /\ UNCHANGED <<argv, summary, fsVars, browser, galleryVars, clock, photoCount,
                 watchVars, sleepUntil, err, histVars>>

-----------------------------------------------------------------------------
\* The environment: the clock, the browser's downloads, the gallery page.

\* Time passes while the script is suspended in a timed wait, in units of
\* POLL_INTERVAL (a readdir is short against it).  The event loop is idle
\* during a wait, so a timer fires when it is due; past the deadline of a
\* waitForSelector more time changes nothing, so the clock stops there.
Tick ==
  /\ \/ pc \in {"wdc_sleep", "hnb_settle"} /\ clock < sleepUntil
     \/ pc \in {"hnb_wait_next", "hnb_wait_link"} /\ clock < ELEMENT_VISIBLE
  /\ clock' = clock + POLL_INTERVAL
  /\ UNCHANGED <<pc, procVars, fsVars, browser, galleryVars, photoCount,
                 watchVars, sleepUntil, err, histVars>>

\* Chrome creates the download's file under its in-progress name.
Browser_beginWrite ==
  /\ browser = "open"
  /\ \E i \in DOMAIN downloads :
       /\ downloads[i].st = "requested"
       /\ dir' = dir \cup {PartialName(downloads[i].name)}
       /\ downloads' = [downloads EXCEPT ![i].st = "partial"]
  /\ UNCHANGED <<pc, procVars, dirExists, dir0, browser, galleryVars, clock,
                 photoCount, watchVars, sleepUntil, err, returned, nextClicks,
                 advanced, envFault, falseEnd>>

\* Chrome finishes the download: the file is renamed to its final name.
\* The download is late when no poll made within DOWNLOAD ms of the click
\* can see the file any more (the last such poll is POLL_INTERVAL before).
Browser_finishWrite ==
  /\ browser = "open"
  /\ \E i \in DOMAIN downloads :
       /\ downloads[i].st = "partial"
       /\ dir' = (dir \ {PartialName(downloads[i].name)}) \cup {downloads[i].name}
       /\ downloads' = [downloads EXCEPT ![i].st = "complete",
                                         ![i].late = (clock >= DOWNLOAD - POLL_INTERVAL)]
  /\ UNCHANGED <<pc, procVars, dirExists, dir0, browser, galleryVars, clock,
                 photoCount, watchVars, sleepUntil, err, returned, nextClicks,
                 advanced, envFault, falseEnd>>

\* The script looks at the page only in its clicks and waitForSelector calls:
\* a change of the page while it polls the directory is the same, to the
\* script, as that change made when the polling is over.
ScriptUsesPage ==
  pc \in {"click", "hnb_wait_next", "hnb_click_next", "hnb_wait_link", "hnb_settle"}

\* The gallery finishes the transition a "next" click started.
Gallery_showNextPhoto ==
  /\ browser = "open"
  /\ ScriptUsesPage
  /\ pending
  /\ displayed' = displayed + 1
  /\ pending' = FALSE
  /\ linkVisible' = TRUE
  /\ nextShown' = FALSE
  /\ UNCHANGED <<pc, procVars, fsVars, browser, galleryN, clock, photoCount,
                 watchVars, sleepUntil, err, histVars>>

\* The gallery renders the "next" control of the displayed photo (the last
\* photo has none).
Gallery_showNextControl ==
  /\ browser = "open"
  /\ ScriptUsesPage
  /\ displayed >= 1 /\ displayed < galleryN
  /\ ~pending /\ ~nextShown
  /\ nextShown' = TRUE
  /\ UNCHANGED <<pc, procVars, fsVars, browser, galleryN, displayed, pending,
                 linkVisible, clock, photoCount, watchVars, sleepUntil, err,
                 histVars>>

\* The gallery renders the image link of the displayed photo.
Gallery_showLink ==
  /\ browser = "open"
  /\ ScriptUsesPage
  /\ displayed >= 1
  /\ ~pending /\ ~linkVisible
  /\ linkVisible' = TRUE
  /\ UNCHANGED <<pc, procVars, fsVars, browser, galleryN, displayed, pending,
                 nextShown, clock, photoCount, watchVars, sleepUntil, err,
                 histVars>>

-----------------------------------------------------------------------------
Next ==
  \/ top_argcCheck
  \/ top_urlCheck
  \/ main_mkdir
  \/ main_checkDirectoryEmpty
  \/ setupBrowser_launch
  \/ setupBrowser_newPage
  \/ configureDownloads
  \/ main_goto
  \/ main_click
  \/ waitForDownloadCompletion_start
  \/ waitForDownloadCompletion_before
  \/ waitForDownloadCompletion_test
  \/ waitForDownloadCompletion_poll
  \/ waitForDownloadCompletion_sleep
  \/ main_downloaded
  \/ handleNextButton_waitNext
  \/ handleNextButton_click
  \/ handleNextButton_waitLink
  \/ handleNextButton_settle
  \/ main_completion
  \/ main_finally
  \/ main_resolved
  \/ main_catch
  \/ Tick
  \/ Browser_beginWrite
  \/ Browser_finishWrite
  \/ Gallery_showNextPhoto
  \/ Gallery_showNextControl
  \/ Gallery_showLink

Spec == Init /\ [][Next]_vars

\* The steps of the script itself: node runs a continuation that is ready.
ScriptStep ==
  \/ top_argcCheck
  \/ top_urlCheck
  \/ main_mkdir
  \/ main_checkDirectoryEmpty
  \/ setupBrowser_launch
  \/ setupBrowser_newPage
  \/ configureDownloads
  \/ main_goto
  \/ main_click
  \/ waitForDownloadCompletion_start
  \/ waitForDownloadCompletion_before
  \/ waitForDownloadCompletion_test
  \/ waitForDownloadCompletion_poll
  \/ waitForDownloadCompletion_sleep
  \/ main_downloaded
  \/ handleNextButton_waitNext
  \/ handleNextButton_click
  \/ handleNextButton_waitLink
  \/ handleNextButton_settle
  \/ main_completion
  \/ main_finally
  \/ main_resolved
  \/ main_catch

\* The script under fair scheduling: a continuation that stays ready is run,
\* and time advances.  Nothing is assumed of the browser's downloads or of
\* the gallery page: either may stall for ever.
FairInit == Init /\ galleryN <= MaxFairPhotos

FairSpec == FairInit /\ [][Next]_vars /\ WF_vars(ScriptStep) /\ WF_vars(Tick)

-----------------------------------------------------------------------------
\* waitForDownloadCompletion on its own: called on any directory, with any
\* sequence of file creations, deletions and renames going on around it.

\* The file names of this directory.
WatchedNames == { FileName(1, 0), PartialName(FileName(1, 0)), Leftover }

InWatcher == pc \in {"wdc_start", "wdc_before", "wdc_test", "wdc_poll", "wdc_sleep"}

WatcherInit ==
  /\ pc = "wdc_start"
  /\ argv = <<"node", "index.js", GoodUrl>>
  /\ dirExists = TRUE
  /\ dir \in SUBSET WatchedNames
  /\ dir0 = dir
  /\ browser = "open"
  /\ galleryN = 1
  /\ displayed = 1
  /\ pending = FALSE
  /\ linkVisible = TRUE
  /\ nextShown = FALSE
  /\ clock = 0
  /\ photoCount = 0
  /\ startTime = 0
  /\ filesBefore = {}
  /\ filesAfter = {}
  /\ completedFile = Undefined
  /\ sleepUntil = 0
  /\ err = "none"
  /\ exitCode = -1
  /\ summary = -1
  /\ downloads = <<>>
  /\ returned = <<>>
  /\ nextClicks = 0
  /\ advanced = 0
  /\ qualPolls = 0
  /\ envFault = FALSE
  /\ falseEnd = FALSE

\* Some process creates a file.
Fs_create ==
  /\ InWatcher
  /\ \E f \in WatchedNames \ dir : dir' = dir \cup {f}
  /\ UNCHANGED <<pc, procVars, dirExists, dir0, browser, galleryVars, clock,
                 photoCount, watchVars, sleepUntil, err, histVars>>

\* Some process deletes a file.
Fs_delete ==
  /\ InWatcher
  /\ \E f \in dir : dir' = dir \ {f}
  /\ UNCHANGED <<pc, procVars, dirExists, dir0, browser, galleryVars, clock,
                 photoCount, watchVars, sleepUntil, err, histVars>>

\* Some process renames an in-progress file to its final name.
Fs_rename ==
  /\ InWatcher
  /\ \E f \in WatchedNames :
       /\ PartialName(f) \in dir
       /\ dir' = (dir \ {PartialName(f)}) \cup {f}
  /\ UNCHANGED <<pc, procVars, dirExists, dir0, browser, galleryVars, clock,
                 photoCount, watchVars, sleepUntil, err, histVars>>

WatcherNext ==
  \/ waitForDownloadCompletion_start
  \/ waitForDownloadCompletion_before
  \/ waitForDownloadCompletion_test
  \/ waitForDownloadCompletion_poll
  \/ waitForDownloadCompletion_sleep
  \/ Tick
  \/ Fs_create
  \/ Fs_delete
  \/ Fs_rename

WatcherSpec == WatcherInit /\ [][WatcherNext]_vars

-----------------------------------------------------------------------------
\* Vocabulary of the properties.

\* The process has exited.
Terminated == pc = "exited"

\* The run ended normally: main resolved and the process exited with code 0.
Done == pc = "exited" /\ exitCode = 0

\* Both preconditions of a run hold of the process's input.
PreconditionsHold == Len(argv) >= 3 /\ isValidUrl(argv[3]) /\ dir0 = {}

\* The files of the directory that do not carry the in-progress suffix.
CompletedFiles == { f \in dir : ~EndsWith(f, CrDownload) }

\* The download the last image-link click triggered.
Current == downloads[Len(downloads)]

\* The photos downloaded so far, one per image-link click.
ClickedPhotos == { downloads[i].photo : i \in DOMAIN downloads }

\* Every triggered download finished writing, and did so in time for a poll
\* made within DOWNLOAD ms of its click.
AllTimely ==
  \A i \in DOMAIN downloads : downloads[i].st = "complete" /\ ~downloads[i].late

\* The script is past the waitForDownloadCompletion call of the last click.
PastWatcher ==
  pc \in {"downloaded", "hnb_wait_next", "hnb_click_next", "hnb_wait_link",
          "hnb_settle", "completion"}

-----------------------------------------------------------------------------
\* C1: for a gallery of N photos whose pages and "next" controls work, every
\* run in which each download finishes writing within the download timeout
\* ends in Done: summary N, N completed files, exit code 0.
C1_TimelyRunEndsDone ==
  (Terminated /\ PreconditionsHold /\ ~envFault /\ AllTimely /\ downloads # <<>>)
    => /\ exitCode = 0
       /\ summary = galleryN
       /\ Cardinality(CompletedFiles) = galleryN

SetupBrowserReturned == browser # "none" /\ err # "newPage"

\* C3: once setupBrowser has returned, no exit of the process leaves the
\* browser open.
C3_BrowserClosedOnExit ==
  (Terminated /\ SetupBrowserReturned) => browser = "closed"

\* C4: waitForDownloadCompletion throws 'Download timed out' only if the
\* download of the current click did not complete within the timeout.
C4_TimeoutOnlyIfIncomplete ==
  err = "timeout" => ~(Current.st = "complete" /\ ~Current.late)

\* C5: the script gets past waitForDownloadCompletion only with the download
\* complete; a timeout aborts the run: no click, pagination or summary
\* follows it, the browser is closed and the exit code is 1.
C5_TimeoutAborts ==
  /\ PastWatcher => Current.st = "complete"
  /\ summary # -1 => \A i \in DOMAIN downloads : downloads[i].st = "complete"
  /\ err = "timeout" =>
       /\ pc \in {"finally", "rejected", "exited"}
       /\ summary = -1
       /\ Len(downloads) = photoCount + 1
       /\ Len(returned) = photoCount
       /\ nextClicks = photoCount
       /\ pc # "finally" => browser = "closed"
       /\ Terminated => exitCode = 1

C5_Witness ==
  /\ Terminated /\ err = "timeout" /\ exitCode = 1 /\ browser = "closed"
  /\ Current.st = "partial"
  /\ PartialName(Current.name) \in dir

\* C6: at Done the reported count is the number of downloads confirmed, the
\* number of Advanced outcomes plus one, and the number of completed files
\* written to the directory.
C6_CountAtDone ==
  Done => /\ summary = Len(returned)
          /\ summary = advanced + 1
          /\ summary = Cardinality(CompletedFiles \ dir0)
          /\ summary = Cardinality({ i \in DOMAIN downloads :
                                       downloads[i].st = "complete" })

C6_Witness == Done /\ summary = MaxPhotos /\ advanced = MaxPhotos - 1

\* C7: no photo is downloaded twice in a run.
C7_NoPhotoTwice ==
  \A i, j \in DOMAIN downloads :
    downloads[i].photo = downloads[j].photo => i = j

\* C8: a click (on the image link or on "next") is issued only when every
\* triggered download has been confirmed; at most one download is
\* unconfirmed or being written at any time, and a poll sees at most one
\* new completed file.
C8_DownloadsSerialized ==
  /\ Len(downloads) - Len(returned) \in {0, 1}
  /\ pc \in {"click", "hnb_click_next"} => Len(returned) = Len(downloads)
  /\ Cardinality({ i \in DOMAIN downloads : downloads[i].st # "complete" }) <= 1
  /\ pc = "wdc_poll" => Cardinality(Completed(NewFiles(dir, filesBefore))) <= 1

C8_Witness ==
  /\ pc = "wdc_poll" /\ Len(downloads) = 2 /\ Len(returned) = 1
  /\ Completed(NewFiles(dir, filesBefore)) # {}

\* C9: with the URL argument missing or invalid, or the directory not
\* empty, no browser is launched, nothing is navigated or clicked, the
\* directory keeps its content, and the process exits with code 1.
C9_PreconditionsFirst ==
  ~PreconditionsHold =>
     /\ pc \in {"argc_check", "url_check", "mkdir", "check_empty", "exited"}
     /\ browser = "none"
     /\ displayed = 0
     /\ downloads = <<>> /\ nextClicks = 0
     /\ dir = dir0
     /\ Terminated => exitCode = 1

C9_Witness ==
  /\ Terminated /\ exitCode = 1
  /\ Len(argv) >= 3 /\ isValidUrl(argv[3])
  /\ Cardinality(dir0) = 2 /\ dir = dir0

\* C10: a file name returned by waitForDownloadCompletion (a) is not in the
\* 'before' snapshot, (b) does not end with '.crdownload', (c) was listed by
\* the poll that returned it, and (d) is returned by the first poll at
\* which the directory holds a new completed file: no earlier poll of the
\* call saw one and went on.
C10_ReturnedFile ==
  /\ pc = "downloaded" =>
       /\ completedFile # Undefined
       /\ returned[Len(returned)] = completedFile
       /\ completedFile \notin filesBefore
       /\ ~EndsWith(completedFile, CrDownload)
       /\ completedFile \in filesAfter
       /\ qualPolls = 1
  /\ pc \in {"wdc_test", "wdc_sleep"} => qualPolls = 0
  /\ (pc = "finally" /\ err = "timeout") => qualPolls = 0

C10_Witness ==
  /\ pc = "downloaded"
  /\ clock >= 2 * POLL_INTERVAL
  /\ PartialName(completedFile) \in filesBefore
  /\ Leftover \in filesBefore
  /\ PartialName(completedFile) \notin filesAfter

\* C11: a call of waitForDownloadCompletion none of whose polls saw a new
\* completed file ends with 'Download timed out', and when it ends so at
\* least DOWNLOAD ms have passed since the call started.
C11_TimeoutNotEarly ==
  /\ (pc = "finally" /\ err = "timeout") => clock - startTime >= DOWNLOAD
  /\ (pc \in {"downloaded", "finally"} /\ qualPolls = 0) => err = "timeout"
  /\ err = "timeout" => qualPolls = 0

C11_Witness ==
  /\ pc = "finally" /\ err = "timeout"
  /\ clock - startTime >= DOWNLOAD
  /\ PartialName(FileName(1, 0)) \in dir
  /\ FileName(1, 0) \notin dir

\* C12: the process exits with code 0 only when the loop reached Done and
\* the completion summary was reported; it exits with code 1 when the
\* argument is missing, the URL invalid, the directory not empty, or main
\* rejected (launch, navigation, image-link click, download timeout).
C12_ExitCodes ==
  Terminated =>
    /\ exitCode \in {0, 1}
    /\ exitCode = 0 => (summary # -1 /\ err = "none" /\ PreconditionsHold)
    /\ (~PreconditionsHold \/ err # "none") => exitCode = 1
    /\ summary # -1 => exitCode = 0

C12_Witness ==
  /\ Terminated /\ exitCode = 1
  /\ err = "timeout" /\ photoCount = 1

\* The script is inside handleNextButton.
InHandleNextButton ==
  pc \in {"hnb_wait_next", "hnb_click_next", "hnb_wait_link", "hnb_settle"}

\* C13: handleNextButton never propagates an error: it is left only by a
\* return (true: back to the click; false: to the completion summary), also
\* when the "next" control times out, its click fails or the image link
\* times out; after a false return the run ends normally: summary printed,
\* browser closed, exit code 0.
C13_NoErrorFromPagination ==
  /\ [](/\ InHandleNextButton => err = "none"
        /\ (pc = "completion" \/ summary # -1 \/ falseEnd) =>
             /\ err = "none"
             /\ pc \in {"completion", "finally", "resolved", "exited"}
             /\ pc # "completion" => summary = photoCount + 1
             /\ pc \in {"resolved", "exited"} => browser = "closed"
             /\ Terminated => exitCode = 0)
  /\ [][(InHandleNextButton /\ ~InHandleNextButton')
           => (pc' \in {"click", "completion"} /\ err' = "none")]_vars

\* The image link did not show within the timeout after the "next" click.
C13_Witness ==
  /\ Done /\ falseEnd
  /\ nextClicks = advanced + 1
  /\ ~linkVisible /\ clock >= ELEMENT_VISIBLE
  /\ summary = photoCount + 1 /\ browser = "closed"

\* C14: handleNextButton returns true only after the "next" control was
\* found visible, then clicked, then an image link seen visible, then the
\* settle delay slept; so at every image-link click after the first at
\* least ANIMATION ms have passed since the preceding "next" click (the
\* clock restarts at that click).
C14_AdvancedAfterSettle ==
  /\ advanced <= nextClicks
  /\ pc = "hnb_click_next" => (nextShown /\ nextClicks = advanced)
  /\ pc = "hnb_wait_link" => nextClicks = advanced + 1
  /\ pc = "hnb_settle" =>
       /\ nextClicks = advanced + 1
       /\ linkVisible
       /\ sleepUntil >= ANIMATION
  /\ (pc = "click" /\ photoCount >= 1) =>
       /\ nextClicks = advanced
       /\ advanced = photoCount
       /\ linkVisible
       /\ clock >= sleepUntil
       /\ clock >= ANIMATION

C14_Witness ==
  /\ pc = "click" /\ photoCount = 2
  /\ clock > ANIMATION

\* C15 as claimed: in every state photoCount is the number of downloads
\* confirmed so far by waitForDownloadCompletion.
C15_CountIsConfirmed == photoCount = Len(returned)

\* C15 as amended: photoCount never decreases and grows by exactly one when
\* handleNextButton returns true; in every state it is the number of true
\* returns, which is the number of confirmed downloads less one from the
\* confirmation of the current photo's download on, and that number before;
\* the summary reports photoCount + 1, the number of confirmed downloads.
C15_CountIsAdvances ==
  /\ [](/\ photoCount = advanced
        /\ PastWatcher => Len(returned) = photoCount + 1
        /\ (pc = "click" \/ InWatcher) => Len(returned) = photoCount
        /\ summary # -1 => (summary = photoCount + 1 /\ summary = Len(returned)))
  /\ [][\/ photoCount' = photoCount
        \/ /\ photoCount' = photoCount + 1
           /\ pc = "hnb_settle" /\ pc' = "click"]_vars

C15_Witness ==
  /\ pc = "downloaded"
  /\ photoCount = 1 /\ Len(returned) = 2

\* The parts of C16 about the "next" control and the failing image-link
\* click: every "next" click moved the gallery by one photo (none was
\* repeated on the same photo), and after a failed image-link click nothing
\* more is clicked, waited for or reported and the exit code is 1.
NoRetryOfNextOrFailedClick ==
  /\ displayed >= 1 => nextClicks = (displayed - 1) + (IF pending THEN 1 ELSE 0)
  /\ Len(returned) <= Len(downloads)
  /\ err = "click" =>
       /\ pc \in {"finally", "rejected", "exited"}
       /\ summary = -1
       /\ Len(returned) = Len(downloads)
       /\ Len(downloads) = photoCount
       /\ nextClicks = advanced
       /\ Terminated => exitCode = 1

\* C16: no step is retried: the image link of a displayed photo is clicked
\* (and its download awaited) at most once, the "next" control of a photo
\* is clicked at most once, and a failed image-link click is fatal.
C16_NoStepTwice ==
  /\ \A i, j \in DOMAIN downloads :
       i # j => downloads[i].photo # downloads[j].photo
  /\ NoRetryOfNextOrFailedClick

\* C18: the file name returned by the k-th call of waitForDownloadCompletion
\* is the file of the download the k-th image-link click triggered, and no
\* file name is returned by two calls.
C18_ReturnedIsCurrentDownload ==
  /\ Len(returned) <= Len(downloads)
  /\ \A k \in DOMAIN returned : returned[k] = downloads[k].name
  /\ \A j, k \in DOMAIN returned : returned[j] = returned[k] => j = k

C18_Witness ==
  /\ Len(returned) = MaxPhotos
  /\ returned[MaxPhotos] = downloads[MaxPhotos].name
  /\ \A k \in DOMAIN returned : returned[k] \in dir

\* C17: under fair scheduling with advancing time every call of
\* waitForDownloadCompletion ends (return or throw), every call of
\* handleNextButton returns, and every run reaches a terminal state.
C17_NoWaitBlocksForever ==
  /\ InWatcher ~> ~InWatcher
  /\ InHandleNextButton ~> ~InHandleNextButton
  /\ <>Terminated

\* A run that ended although its download stalled and was timed out.
C17_Witness ==
  /\ Terminated /\ err = "timeout"
  /\ photoCount = 1
  /\ Current.st # "complete"

====
